---- MODULE Spec2Model ----
(***************************************************************************)
(* A model of BloomFilter.py: the sizing formula __bitsNeeded, the          *)
(* constructor, insert, find, falsePositiveRate and numBitsSet.             *)
(* Spec is one caller making whole calls; SpecConc is two callers of        *)
(* insert on one filter, interleaved line by line.                          *)
(*                                                                         *)
(* The two collaborators imported at lines 1-2 are not part of the file:    *)
(*   - BitHash(key, seed) is an arbitrary deterministic function into the   *)
(*     non-negative integers.  The model reveals it lazily: hashTab holds   *)
(*     the values returned so far, a call on a new (key, seed) pair may     *)
(*     return any value, a call on a known pair returns the known value.    *)
(*   - BitVector(size = n) is a zero-initialised array of n bits with       *)
(*     get/set by index in 0..n-1.                                          *)
(***************************************************************************)
EXTENDS Integers, Naturals, Sequences, FiniteSets, TLC

VARIABLES
    hashTab,      \* the part of BitHash revealed so far: key -> seed -> value
    phase,        \* "start", "constructed", or "failed" (the constructor raised)
    args,         \* the arguments the constructor was called with
    size,         \* self.__size
    numHashes,    \* self.__numHashes
    bitsSet,      \* self.__bitsSet
    bloomFilter,  \* self.__bloomFilter, a function from 0..size-1 to {0,1}
    last,         \* the most recent call on the filter and its outcome
    inserted,     \* history: the keys whose insert has returned
    again,        \* history: the last insert was of a key inserted before
    twin,         \* a second filter built with the same arguments: [bits, count]
    log,          \* the key inserted into the filter and not yet into the twin
    threads,      \* two callers sharing the filter: where each is in insert
    overlap       \* history: two calls of insert were in progress at once

vars == <<hashTab, phase, args, size, numHashes, bitsSet, bloomFilter, last,
          inserted, again, twin, log, threads, overlap>>

(***************************************************************************)
(* Bounds of the model.                                                     *)
(***************************************************************************)
MaxKeys == 2          \* largest numKeys passed to the constructor
MaxHashes == 2        \* largest numHashes passed to the constructor
HashMax == 2          \* BitHash returns a value in 0..HashMax-1

Keys == {"a", "b"}
HashVals == 0 .. (HashMax - 1)
Unknown == -1

NumKeysArgs == -1 .. MaxKeys
NumHashesArgs == -1 .. MaxHashes
\* maxFalsePositive as a fraction <<numerator, denominator>>:
\* -1, 0, 1/2, 3/4, 1 and 2
PArgs == {<<-1, 1>>, <<0, 1>>, <<1, 2>>, <<3, 4>>, <<1, 1>>, <<2, 1>>}
\* the constructor calls of the model: every combination of the above, and
\* BloomFilter(1, 1, 0.05)
CtorArgs == (NumKeysArgs \X NumHashesArgs \X PArgs) \cup {<<1, 1, <<1, 20>>>>}

NoArgs == [numKeys |-> 0, numHashes |-> 0, maxFalsePositive |-> <<0, 1>>]
\* A call record: the operation, its key, what it returned (ret for find and
\* insert, num for numBitsSet, rate for falsePositiveRate as a fraction),
\* whether it raised, and the storage indices it accessed, in order.
Call(op, key, ret, raised, probes, num, rate) ==
    [op |-> op, key |-> key, ret |-> ret, raised |-> raised, probes |-> probes,
     num |-> num, rate |-> rate]
NoCall == Call("none", "", "None", FALSE, <<>>, 0, <<0, 1>>)

(***************************************************************************)
(* __bitsNeeded, lines 12-19.                                               *)
(*     phi = 1 - P**(1/d);  N = d/(1 - phi**(1/n));  return int(N)          *)
(* The code works on floats.  The model works on exact fractions and        *)
(* settles int(N) by comparing integers: for a positive base x and k >= 1,  *)
(* x**(1/k) <= q  iff  x <= q**k.  A Python exponent 1/k is a whole number  *)
(* only for k = 1 and k = -1; any other root of a negative base is a        *)
(* complex number, and int() of a complex number raises TypeError.          *)
(* The arguments are numKeys >= -1 and numHashes >= -1.  On every argument   *)
(* triple of NumKeysArgs, NumHashesArgs and PArgs (also with the maxima at   *)
(* 3) the exact result is the result of the float computation.              *)
(* BitsNeeded is the exact computation; BitsNeededFloat adds the rounding   *)
(* of the floats where it can change the integer returned.                  *)
(***************************************************************************)
RECURSIVE Pow(_, _)
Pow(b, e) == IF e <= 0 THEN 1 ELSE b * Pow(b, e - 1)

Abs(x) == IF x < 0 THEN -x ELSE x

Raise == [raised |-> TRUE, value |-> 0]
Return(v) == [raised |-> FALSE, value |-> v]

\* The largest m with Ok(m), for an Ok that holds exactly on 0..floor.
\* The search goes upward and stops at the first m whose successor fails.
Largest(Ok(_), limit) == CHOOSE m \in 0 .. limit : Ok(m) /\ ~Ok(m + 1)

\* floor(d / P**(1/d)) for P > 0 and d >= 1:  m * P**(1/d) <= d  iff  P * m**d <= d**d
FloorDOverA(d, pn, pd) ==
    Largest(LAMBDA m : pn * Pow(m, d) <= pd * Pow(d, d), d * pd + d)

\* The documented domain, n >= 1, d >= 1, 0 < P < 1, where N > d:
\*   m <= d/(1 - phi**(1/n))  iff  m <= d  or  ((m-d)/m)**n <= 1 - P**(1/d)
\*                            iff  m <= d  or  P * m**(n*d) <= (m**n - (m-d)**n)**d
\* and N <= d*n/P bounds the search.
BitsNeededInDomain(n, d, pn, pd) ==
    Largest(LAMBDA m : \/ m <= d
                       \/ pn * Pow(m, n * d) <= pd * Pow(Pow(m, n) - Pow(m - d, n), d),
            d * n * pd)

BitsNeeded(nKeys, nHashes, maxFalse) ==
    LET n == nKeys
        d == nHashes
        pn == maxFalse[1]
        pd == maxFalse[2]
        \* A = P**(1/d) for d = 1 or d = -1, as the fraction an/ad with ad > 0
        an == IF d = 1 THEN pn ELSE IF pn < 0 THEN -pd ELSE pd
        ad == IF d = 1 THEN pd ELSE Abs(pn)
        \* phi = 1 - A as the fraction fn/fd
        fn == ad - an
        fd == ad
    IN  \* line 17: 1/d
        IF d = 0 THEN Raise
        \* line 17: 0**x is 0 for x > 0 and raises for x < 0
        ELSE IF pn = 0 /\ d < 0 THEN Raise
        \* line 18: 1/n
        ELSE IF n = 0 THEN Raise
        \* line 18: P = 0 gives phi = 1, 1**(1/n) = 1 and d/(1 - 1)
        ELSE IF pn = 0 THEN Raise
        \* line 17: a root of a negative P is complex; line 19 raises
        ELSE IF pn < 0 /\ Abs(d) # 1 THEN Raise
        ELSE IF pn < 0 THEN
            \* A < 0 and phi = fn/fd > 1
            IF n = -1 THEN
                \* phi**(-1) = 1/phi, N = d*phi/(phi - 1)
                Return(d * (fn \div (fn - fd)))
            ELSE IF n = 1 THEN
                \* N = d/(1 - phi) = d/A
                Return(-d * (ad \div (-an)))
            ELSE
                \* R = phi**(1/n) > 1, N = -d/(R - 1);
                \* m <= 1/(R - 1)  iff  phi <= ((m+1)/m)**n
                Return(-d * Largest(LAMBDA m : \/ m = 0
                                               \/ fn * Pow(m, n) <= fd * Pow(m + 1, n),
                                    n * fn))
        ELSE IF pn = pd THEN
            \* P = 1: A = 1, phi = 0; 0**(1/n) is 0 for n > 0 and raises for n < 0
            IF n < 0 THEN Raise ELSE Return(d)
        ELSE IF pn < pd /\ d >= 1 THEN
            \* 0 < A < 1 and 0 < phi < 1
            IF n >= 1 THEN Return(BitsNeededInDomain(n, d, pn, pd))
            \* n = -1: N = d*phi/(phi - 1) = d - d/A, negative; int() truncates towards 0
            ELSE Return(-(FloorDOverA(d, pn, pd) - d))
        ELSE IF pn < pd THEN
            \* d = -1: A = 1/P > 1, phi < 0; a root of phi is complex unless n is 1 or -1.
            \* n = 1: N = -1/A = -P;  n = -1: N = P - 1;  both in (-1,0)
            IF Abs(n) # 1 THEN Raise ELSE Return(0)
        ELSE IF d >= 1 THEN
            \* P > 1: A > 1, phi < 0; a root of phi is complex unless n is 1 or -1
            IF Abs(n) # 1 THEN Raise
            \* n = 1: N = d/(1 - phi) = d/A
            ELSE IF n = 1 THEN Return(FloorDOverA(d, pn, pd))
            \* n = -1: N = d - d/A in (0,d);  m <= d - d/A  iff  d**d <= (d-m)**d * P
            ELSE Return(Largest(LAMBDA m : m < d /\ pd * Pow(d, d) <= pn * Pow(d - m, d), d))
        ELSE
            \* P > 1 and d = -1: A = 1/P, phi = (pn-pd)/pn in (0,1)
            IF n = -1 THEN
                \* N = -phi/(phi - 1) = P - 1
                Return((pn - pd) \div pd)
            ELSE
                \* N = -1/(1 - R);  m <= 1/(1 - R)  iff  ((m-1)/m)**n <= phi
                Return(-Largest(LAMBDA m : \/ m <= 1
                                           \/ pn * Pow(m - 1, n) <= (pn - pd) * Pow(m, n),
                                n * pn + 1))

\* x is a power of two
RECURSIVE PowerOfTwo(_)
PowerOfTwo(x) == x = 1 \/ (x > 1 /\ x % 2 = 0 /\ PowerOfTwo(x \div 2))

\* in the documented domain, the exact N is the whole number m
WholeN(n, d, pn, pd, m) ==
    /\ m > d
    /\ pn * Pow(m, n * d) = pd * Pow(Pow(m, n) - Pow(m - d, n), d)

\* __bitsNeeded as the floats compute it, lines 17-19: the set of the results
\* that rounding allows.  A P with a finite binary expansion (1/2, 3/4, the
\* whole numbers) is a float, and the model's calls on such a P compute their
\* N without a rounding that matters.  Any other P is not a float: line 17
\* starts from the float next to P, 1 - P is rounded again, and N comes out a
\* few units in the last place off the exact value.  Where the exact N is a
\* whole number m, the float N is m or just below m, and int() at line 19
\* returns m or m - 1.  (Python: P = 0.05, d = 1, n = 1 gives phi = 0.95,
\* 1 - phi = 0.050000000000000044, N = 19.999999999999982, int(N) = 19.)
BitsNeededFloat(nKeys, nHashes, maxFalse) ==
    LET exact == BitsNeeded(nKeys, nHashes, maxFalse)
        pn == maxFalse[1]
        pd == maxFalse[2]
    IN  IF /\ nKeys >= 1 /\ nHashes >= 1 /\ 0 < pn /\ pn < pd
           /\ ~PowerOfTwo(pd)
           /\ WholeN(nKeys, nHashes, pn, pd, exact.value)
        THEN {exact, Return(exact.value - 1)}
        ELSE {exact}

(***************************************************************************)
(* BitHash (imported at line 1): a deterministic function of (key, seed).   *)
(* A chain hs is the sequence of values of the successive calls             *)
(*   hs[1] = BitHash(key, 0),  hs[j+1] = BitHash(key, hs[j]).               *)
(***************************************************************************)
Seed(hs, j) == IF j = 1 THEN 0 ELSE hs[j - 1]

\* hs agrees with the values already revealed and with itself
ChainOK(tab, key, hs) ==
    \A j \in 1 .. Len(hs) :
        /\ tab[key][Seed(hs, j)] # Unknown => hs[j] = tab[key][Seed(hs, j)]
        /\ \A i \in 1 .. (j - 1) : Seed(hs, i) = Seed(hs, j) => hs[i] = hs[j]

BitHash(tab, key, c) == {hs \in [1 .. c -> HashVals] : ChainOK(tab, key, hs)}

\* the table after the first c calls of the chain hs have been made
Reveal(tab, key, hs, c) ==
    [tab EXCEPT ![key] =
        [s \in HashVals |->
            IF \E j \in 1 .. c : Seed(hs, j) = s
            THEN hs[CHOOSE j \in 1 .. c : Seed(hs, j) = s]
            ELSE @[s]]]

(***************************************************************************)
(* BitVector (imported at line 2): get and set take an index in 0..size-1.  *)
(***************************************************************************)
BitVector(n) == [i \in 0 .. (n - 1) |-> 0]
InRange(bits, idx) == idx \in DOMAIN bits

\* Python's h % m for h >= 0: the result has the sign of m; m = 0 raises
PyMod(h, m) == IF m > 0 THEN h % m ELSE -((-h) % (-m))

\* a variant that uses the hash value itself as the index
ProbeIndexNoMod(h, sz) == h

\* the probe index of lines 51, 55 and 71
ProbeIndex(h, sz) == PyMod(h, sz)

Max(a, b) == IF a >= b THEN a ELSE b

(***************************************************************************)
(* insert, lines 43-58: iteration i of the loop, for i = 1..numHashes.      *)
(* st is [bits, count, raised, probes, calls]: the storage, the counter,    *)
(* whether an access raised, the indices accessed and the number of         *)
(* BitHash calls made so far.                                               *)
(***************************************************************************)
\* Variants of the loop with a slip in it, used to show that the properties
\* below depend on the loop as written.
\* - the loop runs numHashes - 1 times
RECURSIVE InsertLoopShort(_, _, _, _, _)
InsertLoopShort(st, hs, sz, d, i) ==
    IF i > d - 1 THEN [st EXCEPT !.calls = IF d >= 1 THEN @ + 1 ELSE @]
    ELSE IF sz = 0 THEN [st EXCEPT !.raised = TRUE]
    ELSE LET idx == PyMod(hs[i], sz)
         IN  InsertLoopShort(
                [bits   |-> [st.bits EXCEPT ![idx] = 1],
                 count  |-> IF st.bits[idx] = 0 THEN st.count + 1 ELSE st.count,
                 raised |-> FALSE,
                 probes |-> Append(st.probes, idx),
                 calls  |-> st.calls + 1],
                hs, sz, d, i + 1)

\* - the counter is incremented without looking at the bit
RECURSIVE InsertLoopNoCheck(_, _, _, _, _)
InsertLoopNoCheck(st, hs, sz, d, i) ==
    IF i > d THEN st
    ELSE IF sz = 0 THEN [st EXCEPT !.raised = TRUE]
    ELSE LET idx == PyMod(hs[i], sz)
         IN  InsertLoopNoCheck(
                [bits   |-> [st.bits EXCEPT ![idx] = 1],
                 count  |-> st.count + 1,
                 raised |-> FALSE,
                 probes |-> Append(st.probes, idx),
                 calls  |-> st.calls + 1],
                hs, sz, d, i + 1)

\* - the bit is looked at after it has been set
RECURSIVE InsertLoopLateCheck(_, _, _, _, _)
InsertLoopLateCheck(st, hs, sz, d, i) ==
    IF i > d THEN st
    ELSE IF sz = 0 THEN [st EXCEPT !.raised = TRUE]
    ELSE LET idx == PyMod(hs[i], sz)
             bits == [st.bits EXCEPT ![idx] = 1]
         IN  InsertLoopLateCheck(
                [bits   |-> bits,
                 count  |-> IF bits[idx] = 0 THEN st.count + 1 ELSE st.count,
                 raised |-> FALSE,
                 probes |-> Append(st.probes, idx),
                 calls  |-> st.calls + 1],
                hs, sz, d, i + 1)

\* - the bit is flipped instead of set
RECURSIVE InsertLoopToggle(_, _, _, _, _)
InsertLoopToggle(st, hs, sz, d, i) ==
    IF i > d THEN st
    ELSE IF sz = 0 THEN [st EXCEPT !.raised = TRUE]
    ELSE LET idx == PyMod(hs[i], sz)
         IN  InsertLoopToggle(
                [bits   |-> [st.bits EXCEPT ![idx] = 1 - @],
                 count  |-> IF st.bits[idx] = 0 THEN st.count + 1 ELSE st.count,
                 raised |-> FALSE,
                 probes |-> Append(st.probes, idx),
                 calls  |-> st.calls + 1],
                hs, sz, d, i + 1)

\* - line 58 is left out: every probe uses BitHash(key, 0)
RECURSIVE InsertLoopNoFeedback(_, _, _, _, _)
InsertLoopNoFeedback(st, hs, sz, d, i) ==
    IF i > d THEN st
    ELSE IF sz = 0 THEN [st EXCEPT !.raised = TRUE]
    ELSE LET idx == PyMod(hs[1], sz)
         IN  InsertLoopNoFeedback(
                [bits   |-> [st.bits EXCEPT ![idx] = 1],
                 count  |-> IF st.bits[idx] = 0 THEN st.count + 1 ELSE st.count,
                 raised |-> FALSE,
                 probes |-> Append(st.probes, idx),
                 calls  |-> st.calls + 1],
                hs, sz, d, i + 1)

RECURSIVE InsertLoop(_, _, _, _, _)
InsertLoop(st, hs, sz, d, i) ==
    IF i > d THEN st
    \* line 51: h % 0 raises ZeroDivisionError
    ELSE IF sz = 0 THEN [st EXCEPT !.raised = TRUE]
    ELSE LET idx == ProbeIndex(hs[i], sz)
         IN  \* line 51: reading outside the storage raises
             IF ~InRange(st.bits, idx)
             THEN [st EXCEPT !.raised = TRUE, !.probes = Append(@, idx)]
             ELSE InsertLoop(
                    [bits   |-> [st.bits EXCEPT ![idx] = 1],                          \* line 55
                     count  |-> IF st.bits[idx] = 0 THEN st.count + 1 ELSE st.count,  \* lines 51-52
                     raised |-> FALSE,
                     probes |-> Append(st.probes, idx),
                     calls  |-> st.calls + 1],                                       \* line 58
                    hs, sz, d, i + 1)

\* a variant in which the storage is shared by all filters (a class attribute)
\* instead of owned by the instance
InsertResultShared(bits, count, hs, sz, d) ==
    InsertLoop([bits |-> bloomFilter, count |-> count, raised |-> FALSE,
                probes |-> <<>>, calls |-> 1],
               hs, sz, d, 1)

InsertResult(bits, count, hs, sz, d) ==
    InsertLoop([bits |-> bits, count |-> count, raised |-> FALSE, probes |-> <<>>, calls |-> 1],
               hs, sz, d, 1)

(***************************************************************************)
(* find, lines 63-77.  st is [ret, raised, probes, calls].                  *)
(***************************************************************************)
\* Variants of the loop with a slip in it.
\* - the loop runs numHashes - 1 times
RECURSIVE FindLoopShort(_, _, _, _, _, _)
FindLoopShort(st, bits, hs, sz, d, i) ==
    IF i > d - 1 THEN [st EXCEPT !.ret = "True"]
    ELSE IF sz = 0 THEN [st EXCEPT !.raised = TRUE]
    ELSE LET idx == PyMod(hs[i], sz)
         IN  IF bits[idx] = 0
             THEN [st EXCEPT !.ret = "False", !.probes = Append(@, idx)]
             ELSE FindLoopShort([st EXCEPT !.probes = Append(@, idx), !.calls = @ + 1],
                                bits, hs, sz, d, i + 1)

\* - a 0 bit is remembered and the loop goes on to the end
RECURSIVE FindLoopNoExit(_, _, _, _, _, _)
FindLoopNoExit(st, bits, hs, sz, d, i) ==
    IF i > d THEN [st EXCEPT !.ret = IF @ = "False" THEN "False" ELSE "True"]
    ELSE IF sz = 0 THEN [st EXCEPT !.raised = TRUE]
    ELSE LET idx == PyMod(hs[i], sz)
         IN  FindLoopNoExit([st EXCEPT !.ret = IF bits[idx] = 0 THEN "False" ELSE @,
                                       !.probes = Append(@, idx),
                                       !.calls = @ + 1],
                            bits, hs, sz, d, i + 1)

RECURSIVE FindLoop(_, _, _, _, _, _)
FindLoop(st, bits, hs, sz, d, i) ==
    \* line 77
    IF i > d THEN [st EXCEPT !.ret = "True"]
    \* line 71: h % 0 raises ZeroDivisionError
    ELSE IF sz = 0 THEN [st EXCEPT !.raised = TRUE]
    ELSE LET idx == ProbeIndex(hs[i], sz)
         IN  IF ~InRange(bits, idx)
             THEN [st EXCEPT !.raised = TRUE, !.probes = Append(@, idx)]
             \* lines 71-72
             ELSE IF bits[idx] = 0
             THEN [st EXCEPT !.ret = "False", !.probes = Append(@, idx)]
             \* line 74
             ELSE FindLoop([st EXCEPT !.probes = Append(@, idx), !.calls = @ + 1],
                           bits, hs, sz, d, i + 1)

FindResult(bits, hs, sz, d) ==
    FindLoop([ret |-> "None", raised |-> FALSE, probes |-> <<>>, calls |-> 1],
             bits, hs, sz, d, 1)

(***************************************************************************)
(* The state machine.                                                       *)
(***************************************************************************)
\* a caller's position in insert: the line it executes next, its key, its
\* local h and loop index i, and the counter value it loaded at line 52
Threads == {1, 2}
Idle == [pc |-> "idle", key |-> "", h |-> 0, i |-> 0, tmp |-> 0]

Init ==
    /\ hashTab = [k \in Keys |-> [s \in HashVals |-> Unknown]]
    /\ phase = "start"
    /\ args = NoArgs
    /\ size = 0
    /\ numHashes = 0
    /\ bitsSet = 0
    /\ bloomFilter = BitVector(0)
    /\ last = NoCall
    /\ inserted = {}
    /\ again = FALSE
    /\ twin = [bits |-> BitVector(0), count |-> 0]
    /\ log = <<>>
    /\ threads = [t \in Threads |-> Idle]
    /\ overlap = FALSE

\* __init__, lines 25-37, raising at line 29 (in __bitsNeeded) or at line 31
\* (there is no bit array of a negative length)
ConstructFails(n, d, P) ==
    /\ phase = "start"
    /\ \E num \in BitsNeededFloat(n, d, P) : num.raised \/ num.value < 0
    /\ phase' = "failed"
    /\ args' = [numKeys |-> n, numHashes |-> d, maxFalsePositive |-> P]
    /\ UNCHANGED <<hashTab, size, numHashes, bitsSet, bloomFilter, last,
                   inserted, again, twin, log, threads, overlap>>

\* a variant of line 37 that stores numKeys as the hash count
ConstructSwapped(n, d, P) ==
    /\ phase = "start"
    /\ \E num \in BitsNeededFloat(n, d, P) :
           /\ ~num.raised
           /\ num.value >= 0
           /\ bloomFilter' = BitVector(num.value)
           /\ size' = num.value
           /\ twin' = [bits |-> BitVector(num.value), count |-> 0]
    /\ bitsSet' = 0
    /\ numHashes' = n
    /\ phase' = "constructed"
    /\ args' = [numKeys |-> n, numHashes |-> d, maxFalsePositive |-> P]
    /\ UNCHANGED <<hashTab, last, inserted, again, log, threads, overlap>>

\* __init__, lines 25-37, returning a filter
Construct(n, d, P) ==
    /\ phase = "start"
    /\ \E num \in BitsNeededFloat(n, d, P) :
           /\ ~num.raised
           /\ num.value >= 0
           /\ bloomFilter' = BitVector(num.value)     \* line 31
           /\ size' = num.value                       \* line 33
           /\ twin' = [bits |-> BitVector(num.value), count |-> 0]
    /\ bitsSet' = 0                                   \* line 35
    /\ numHashes' = d                                 \* line 37
    /\ phase' = "constructed"
    /\ args' = [numKeys |-> n, numHashes |-> d, maxFalsePositive |-> P]
    /\ UNCHANGED <<hashTab, last, inserted, again, log, threads, overlap>>

\* insert(key), lines 43-58
Insert(key) ==
    /\ phase = "constructed"
    /\ log = <<>>
    /\ \E hs \in BitHash(hashTab, key, Max(numHashes, 0) + 1) :
         LET r == InsertResult(bloomFilter, bitsSet, hs, size, numHashes)
         IN  /\ bloomFilter' = r.bits
             /\ bitsSet' = r.count
             /\ hashTab' = Reveal(hashTab, key, hs, r.calls)
             /\ last' = Call("insert", key, "None", r.raised, r.probes, 0, <<0, 1>>)
             /\ inserted' = IF r.raised THEN inserted ELSE inserted \cup {key}
             /\ again' = (~r.raised /\ key \in inserted)
    /\ log' = <<key>>
    /\ UNCHANGED <<phase, args, size, numHashes, twin, threads, overlap>>

\* the same insert(key) on the twin; the twin takes each insert before the
\* filter takes the next one
TwinInsert ==
    /\ phase = "constructed"
    /\ log # <<>>
    /\ \E hs \in BitHash(hashTab, Head(log), Max(numHashes, 0) + 1) :
         LET r == InsertResult(twin.bits, twin.count, hs, size, numHashes)
         IN  /\ twin' = [bits |-> r.bits, count |-> r.count]
             /\ hashTab' = Reveal(hashTab, Head(log), hs, r.calls)
    /\ log' = <<>>
    /\ UNCHANGED <<phase, args, size, numHashes, bitsSet, bloomFilter, last, inserted, again, threads, overlap>>

\* a variant of find that sets the bits it reads
FindMarking(key) ==
    /\ phase = "constructed"
    /\ \E hs \in BitHash(hashTab, key, Max(numHashes, 0) + 1) :
         LET r == FindResult(bloomFilter, hs, size, numHashes)
         IN  /\ hashTab' = Reveal(hashTab, key, hs, r.calls)
             /\ last' = Call("find", key, r.ret, r.raised, r.probes, 0, <<0, 1>>)
             /\ bloomFilter' = [i \in DOMAIN bloomFilter |->
                                  IF \E j \in 1 .. Len(r.probes) : r.probes[j] = i
                                  THEN 1 ELSE bloomFilter[i]]
    /\ UNCHANGED <<phase, args, size, numHashes, bitsSet, inserted, again, twin, log, threads, overlap>>

\* find(key), lines 63-77
Find(key) ==
    /\ phase = "constructed"
    /\ \E hs \in BitHash(hashTab, key, Max(numHashes, 0) + 1) :
         LET r == FindResult(bloomFilter, hs, size, numHashes)
         IN  /\ hashTab' = Reveal(hashTab, key, hs, r.calls)
             /\ last' = Call("find", key, r.ret, r.raised, r.probes, 0, <<0, 1>>)
    /\ UNCHANGED <<phase, args, size, numHashes, bitsSet, bloomFilter,
                   inserted, again, twin, log, threads, overlap>>

\* numBitsSet(), lines 103-104
NumBitsSet ==
    /\ phase = "constructed"
    /\ last' = Call("numBitsSet", "", "None", FALSE, <<>>, bitsSet, <<0, 1>>)
    /\ UNCHANGED <<hashTab, phase, args, size, numHashes, bitsSet, bloomFilter,
                   inserted, again, twin, log, threads, overlap>>

\* a variant of line 96 that raises phi, not 1 - phi, to the power d
RateOfPhi(sz, cnt, d) ==
    IF sz = 0 THEN Raise
    ELSE IF sz - cnt = 0 /\ d < 0 THEN Raise
    ELSE IF d >= 0 THEN Return(<<Pow(sz - cnt, d), Pow(sz, d)>>)
    ELSE Return(<<Pow(sz, -d), Pow(sz - cnt, -d)>>)

\* lines 93-97 on exact fractions <<numerator, denominator>>:
\*     phi = (size - bitsSet)/size;  P = (1 - phi)**d
Rate(sz, cnt, d) ==
    \* line 93 divides by size
    IF sz = 0 THEN Raise
    ELSE LET phi == <<sz - cnt, sz>>
             \* 1 - phi
             base == <<phi[2] - phi[1], phi[2]>>
         IN  \* line 96: 0**d raises for d < 0
             IF base[1] = 0 /\ d < 0 THEN Raise
             ELSE IF d >= 0 THEN Return(<<Pow(base[1], d), Pow(base[2], d)>>)
             ELSE Return(<<Pow(base[2], -d), Pow(base[1], -d)>>)

\* falsePositiveRate(), lines 88-97
FalsePositiveRate ==
    /\ phase = "constructed"
    /\ LET r == Rate(size, bitsSet, numHashes)
       IN  last' = Call("falsePositiveRate", "", "None", r.raised, <<>>, 0,
                        IF r.raised THEN <<0, 1>> ELSE r.value)
    /\ UNCHANGED <<hashTab, phase, args, size, numHashes, bitsSet, bloomFilter,
                   inserted, again, twin, log, threads, overlap>>

Next ==
    \/ \E a \in CtorArgs : ConstructFails(a[1], a[2], a[3])
    \/ \E a \in CtorArgs : Construct(a[1], a[2], a[3])
    \/ \E key \in Keys : Insert(key)
    \/ TwinInsert
    \/ \E key \in Keys : Find(key)
    \/ NumBitsSet
    \/ FalsePositiveRate

Spec == Init /\ [][Next]_vars

\* the constructor was called with numKeys > 0, numHashes > 0, 0 < P < 1
InDomain(a) ==
    /\ a.numKeys > 0
    /\ a.numHashes > 0
    /\ 0 < a.maxFalsePositive[1]
    /\ a.maxFalsePositive[1] < a.maxFalsePositive[2]

(***************************************************************************)
(* insert, lines 43-58, called by two threads on one filter.  The class     *)
(* holds no lock, so the threads interleave between the lines of insert,    *)
(* and within line 52, which loads the counter, adds 1 and stores it.       *)
(* Each action below is one such step of one thread.                        *)
(***************************************************************************)
\* the values a call BitHash(key, seed) can return, given the values so far
HashCall(tab, key, seed) == {v \in HashVals : tab[key][seed] \in {Unknown, v}}

\* where a thread goes after line 45 or line 58: into iteration i, or out
LoopHead(th, i) ==
    IF i <= numHashes THEN [th EXCEPT !.pc = "check", !.i = i] ELSE Idle

\* a thread calls insert(key); line 45
ConcCall(t, key) ==
    /\ phase = "constructed"
    /\ threads[t].pc = "idle"
    /\ \E v \in HashCall(hashTab, key, 0) :
         /\ hashTab' = [hashTab EXCEPT ![key][0] = v]
         /\ threads' = [threads EXCEPT ![t] = LoopHead([Idle EXCEPT !.key = key, !.h = v], 1)]
    /\ overlap' = (overlap \/ \E u \in Threads \ {t} : threads[u].pc # "idle")
    /\ UNCHANGED <<phase, args, size, numHashes, bitsSet, bloomFilter, last,
                   inserted, again, twin, log>>

\* a variant of line 51 that takes every bit for 0
ConcCheckBlind(t) ==
    /\ threads[t].pc = "check"
    /\ threads' = [threads EXCEPT ![t].pc = "load"]
    /\ UNCHANGED <<hashTab, phase, args, size, numHashes, bitsSet, bloomFilter, last,
                   inserted, again, twin, log, overlap>>

\* line 51: the test of the bit
ConcCheck(t) ==
    /\ threads[t].pc = "check"
    /\ threads' = [threads EXCEPT ![t].pc =
                      IF bloomFilter[ProbeIndex(threads[t].h, size)] = 0
                      THEN "load" ELSE "set"]
    /\ UNCHANGED <<hashTab, phase, args, size, numHashes, bitsSet, bloomFilter, last,
                   inserted, again, twin, log, overlap>>

\* line 52, first half: the counter is loaded
ConcLoad(t) ==
    /\ threads[t].pc = "load"
    /\ threads' = [threads EXCEPT ![t].pc = "store", ![t].tmp = bitsSet]
    /\ UNCHANGED <<hashTab, phase, args, size, numHashes, bitsSet, bloomFilter, last,
                   inserted, again, twin, log, overlap>>

\* line 52, second half: the loaded value plus 1 is stored
ConcStore(t) ==
    /\ threads[t].pc = "store"
    /\ bitsSet' = threads[t].tmp + 1
    /\ threads' = [threads EXCEPT ![t].pc = "set", ![t].tmp = 0]
    /\ UNCHANGED <<hashTab, phase, args, size, numHashes, bloomFilter, last,
                   inserted, again, twin, log, overlap>>

\* line 55: the bit is set
ConcSet(t) ==
    /\ threads[t].pc = "set"
    /\ bloomFilter' = [bloomFilter EXCEPT ![ProbeIndex(threads[t].h, size)] = 1]
    /\ threads' = [threads EXCEPT ![t].pc = "rehash"]
    /\ UNCHANGED <<hashTab, phase, args, size, numHashes, bitsSet, last,
                   inserted, again, twin, log, overlap>>

\* line 58, and the loop's next iteration or the return
ConcRehash(t) ==
    /\ threads[t].pc = "rehash"
    /\ \E v \in HashCall(hashTab, threads[t].key, threads[t].h) :
         /\ hashTab' = [hashTab EXCEPT ![threads[t].key][threads[t].h] = v]
         /\ threads' = [threads EXCEPT ![t] = LoopHead([@ EXCEPT !.h = v], @.i + 1)]
    /\ UNCHANGED <<phase, args, size, numHashes, bitsSet, bloomFilter, last,
                   inserted, again, twin, log, overlap>>

\* the constructor calls that make the shared filter: 2 bits and 1 hash,
\* 2 bits and 2 hashes, 3 bits and 2 hashes
SharedArgs == {<<1, 1, <<1, 2>>>>, <<1, 2, <<1, 2>>>>, <<2, 2, <<3, 4>>>>}

\* __init__, lines 25-37: the shared filter is one that was constructed
\* within the documented domain
ConstructShared(n, d, P) ==
    /\ InDomain([numKeys |-> n, numHashes |-> d, maxFalsePositive |-> P])
    /\ Construct(n, d, P)

NextConc ==
    \/ \E a \in SharedArgs : ConstructShared(a[1], a[2], a[3])
    \/ \E t \in Threads, key \in Keys : ConcCall(t, key)
    \/ \E t \in Threads : ConcCheck(t)
    \/ \E t \in Threads : ConcLoad(t)
    \/ \E t \in Threads : ConcStore(t)
    \/ \E t \in Threads : ConcSet(t)
    \/ \E t \in Threads : ConcRehash(t)

SpecConc == Init /\ [][NextConc]_vars

(***************************************************************************)
(* Properties.                                                              *)
(***************************************************************************)
\* a validly constructed filter
Valid == phase = "constructed" /\ InDomain(args)

\* the number of 1-bits in a bit array, by a scan
OnesCount(bits) == Cardinality({i \in DOMAIN bits : bits[i] = 1})

\* C1: no false negatives.  On a validly constructed filter, a find of a key
\* whose insert has returned answers True, whatever other inserts happened
\* in between; so a find that answers False is of a key never inserted.
NoFalseNegatives ==
    (Valid /\ last.op = "find" /\ last.key \in inserted)
        => (~last.raised /\ last.ret = "True")

\* C1 witness: both keys inserted, then one of them looked up
NoFalseNegativesWitness ==
    /\ Valid
    /\ last.op = "find"
    /\ inserted = Keys
    /\ last.ret = "True"
    /\ numHashes = 2

\* C2: the counter equals the number of 1-bits of the storage in every state
\* of a constructed filter, and numBitsSet() returns that number.
AccountingInvariant ==
    phase = "constructed" =>
        /\ bitsSet = OnesCount(bloomFilter)
        /\ last.op = "numBitsSet" => last.num = OnesCount(bloomFilter)

\* C2 witness: numBitsSet() called after inserts that set two bits
AccountingWitness ==
    /\ phase = "constructed"
    /\ last.op = "numBitsSet"
    /\ last.num = 2
    /\ inserted = Keys

\* C3: the counter never decreases from one state to the next, and in every
\* state it lies between 0 and capacityBits.
CounterMonotoneBounded ==
    /\ [](0 <= bitsSet /\ bitsSet <= size)
    /\ [][bitsSet' >= bitsSet]_vars

\* C3 witness: every bit of a filter of at least two bits is set, and the
\* same key has been inserted again
CounterMonotoneBoundedWitness ==
    /\ Valid
    /\ size >= 2
    /\ bitsSet = size
    /\ again

\* C4: no step changes a storage bit from 1 to 0.
BitsMonotone ==
    [][\A i \in DOMAIN bloomFilter :
          bloomFilter[i] = 1 => (i \in DOMAIN bloomFilter' /\ bloomFilter'[i] = 1)]_vars

\* C4 witness: a second key was inserted and probed only bits that the first
\* key had set
BitsMonotoneWitness ==
    /\ Valid
    /\ last.op = "insert"
    /\ inserted = Keys
    /\ bitsSet = 1
\* C5: a constructor call with numKeys <= 0, numHashes <= 0 or
\* maxFalsePositive outside (0,1) ends in an error, and no constructed filter
\* has zero-length storage or a non-positive hash count.
ConfigErrorsRejected ==
    /\ (phase # "start" /\ ~InDomain(args)) => phase = "failed"
    /\ phase = "constructed" => (size > 0 /\ numHashes > 0)

\* the value of the j-th BitHash call of key's chain, as far as it is revealed
RECURSIVE HashAt(_, _, _)
HashAt(tab, key, j) ==
    IF j = 1 THEN tab[key][0]
    ELSE LET prev == HashAt(tab, key, j - 1)
         IN  IF prev = Unknown THEN Unknown ELSE tab[key][prev]

\* C6: on a validly constructed filter insert and find never raise, and every
\* index they access is the hash value modulo capacityBits, in 0..capacityBits-1.
InsertFindTotal ==
    (Valid /\ last.op \in {"insert", "find"}) =>
        /\ ~last.raised
        /\ size > 0
        /\ \A j \in 1 .. Len(last.probes) :
              /\ HashAt(hashTab, last.key, j) # Unknown
              /\ last.probes[j] = HashAt(hashTab, last.key, j) % size
              /\ 0 <= last.probes[j]
              /\ last.probes[j] < size

\* C6 witness: an insert whose first hash value is not below capacityBits
InsertFindTotalWitness ==
    /\ Valid
    /\ last.op = "insert"
    /\ ~last.raised
    /\ hashTab[last.key][0] >= size

\* C7: an insert of a key that was inserted before, at once or after other
\* inserts, leaves the counter and the storage as they were.
ReinsertIdempotent ==
    [][\A key \in inserted :
          Insert(key) => (bitsSet' = bitsSet /\ bloomFilter' = bloomFilter)]_vars

\* C7 witness: a key inserted again after both keys were inserted
ReinsertIdempotentWitness ==
    /\ Valid
    /\ again
    /\ last.op = "insert"
    /\ inserted = Keys
    /\ bitsSet >= 2

EmptyFilter ==
    (Valid /\ inserted = {}) =>
        /\ bitsSet = 0
        /\ \A i \in DOMAIN bloomFilter : bloomFilter[i] = 0
        /\ last.op # "insert"
        /\ last.op = "find" => (~last.raised /\ last.ret = "False")

\* C9 witness: a find on the empty filter
EmptyFilterWitness ==
    /\ Valid
    /\ inserted = {}
    /\ last.op = "find"
    /\ last.ret = "False"
    /\ numHashes = 1

\* C10: find examines the probe positions of the key in order, stops at the
\* first one that holds 0 and answers False there; it answers True exactly
\* when all numHashes positions hold 1.
FindSemantics ==
    (phase = "constructed" /\ last.op = "find" /\ ~last.raised) =>
        LET n == Len(last.probes)
        IN  /\ \A j \in 1 .. n :
                  /\ HashAt(hashTab, last.key, j) # Unknown
                  /\ last.probes[j] = HashAt(hashTab, last.key, j) % size
            /\ \A j \in 1 .. (n - 1) : bloomFilter[last.probes[j]] = 1
            /\ last.ret \in {"True", "False"}
            /\ last.ret = "True" <=>
                  /\ n = Max(numHashes, 0)
                  /\ \A j \in 1 .. n : bloomFilter[last.probes[j]] = 1
            /\ last.ret = "False" <=>
                  /\ 1 <= n
                  /\ n <= numHashes
                  /\ bloomFilter[last.probes[n]] = 0

\* C10 witness: on a filter that is not empty, a find with two probes to make
\* stops at the first
FindSemanticsWitness ==
    /\ Valid
    /\ last.op = "find"
    /\ last.ret = "False"
    /\ numHashes = 2
    /\ Len(last.probes) = 1
    /\ bitsSet >= 1
\* C11: whenever falsePositiveRate() returns, its value is
\* (bitsSet/size)**numHashes and lies in [0,1]; on a validly constructed
\* filter it always returns, and it returns 0 as long as nothing was inserted.
ProjectedRate ==
    (phase = "constructed" /\ last.op = "falsePositiveRate") =>
        /\ Valid => ~last.raised
        /\ ~last.raised =>
              /\ size > 0
              /\ last.rate[2] > 0
              \* rate = bitsSet**d / size**d, for the d >= 1 of a filter on
              \* which the call returns
              /\ last.rate[1] * Pow(size, numHashes)
                    = last.rate[2] * Pow(bitsSet, numHashes)
              /\ 0 <= last.rate[1]
              /\ last.rate[1] <= last.rate[2]
              /\ inserted = {} => last.rate[1] = 0

\* C11 witness: the rate of a half-full filter with two hash functions, 1/4
ProjectedRateWitness ==
    /\ Valid
    /\ last.op = "falsePositiveRate"
    /\ ~last.raised
    /\ numHashes = 2
    /\ 2 * bitsSet = size
    /\ 4 * last.rate[1] = last.rate[2]
\* a <= b for fractions with positive denominators
FracLeq(a, b) == a[1] * b[2] <= b[1] * a[2]

\* C12: on a validly constructed filter insert never raises, and from one
\* state of a filter to the next the value that falsePositiveRate() returns
\* never decreases.
RateNonDecreasing ==
    /\ []((Valid /\ last.op = "insert") => ~last.raised)
    /\ []((Valid /\ last.op = "falsePositiveRate") => ~last.raised)
    /\ [][(/\ phase = "constructed"
           /\ ~Rate(size, bitsSet, numHashes).raised
           /\ ~Rate(size', bitsSet', numHashes').raised)
             => FracLeq(Rate(size, bitsSet, numHashes).value,
                        Rate(size', bitsSet', numHashes').value)]_vars

\* C12 witness: both keys were inserted and the rate is above 0 and below 1
RateNonDecreasingWitness ==
    /\ Valid
    /\ last.op = "falsePositiveRate"
    /\ inserted = Keys
    /\ 0 < last.rate[1]
    /\ last.rate[1] < last.rate[2]

\* C13: a constructed filter has the capacity and the hash count that the
\* constructor computed from its arguments, and no later step changes them
\* or the length of the storage.
ParametersFrozen ==
    /\ [](phase = "constructed" =>
            /\ numHashes = args.numHashes
            /\ Return(size) \in BitsNeededFloat(args.numKeys, args.numHashes,
                                                args.maxFalsePositive)
            /\ DOMAIN bloomFilter = 0 .. (size - 1))
    /\ [][phase = "constructed" =>
            /\ size' = size
            /\ numHashes' = numHashes
            /\ DOMAIN bloomFilter' = DOMAIN bloomFilter]_vars

\* C13 witness: the filter for 2 keys, 2 hashes and P = 3/4 still has 3 bits
\* and 2 hashes after inserts and queries
ParametersFrozenWitness ==
    /\ Valid
    /\ args.numKeys = 2
    /\ args.maxFalsePositive = <<3, 4>>
    /\ numHashes = 2
    /\ size = 3
    /\ bitsSet = 2
    /\ last.op = "falsePositiveRate"

\* C14: sizing.  For numKeys > 0, numHashes > 0 and 0 < P < 1 the constructor
\* returns a filter whose capacity is the floor of
\* numHashes / (1 - (1 - P^(1/numHashes))^(1/numKeys)), a positive integer
\* that is at least numHashes.
SizingFloor ==
    (phase # "start" /\ InDomain(args)) =>
        /\ phase = "constructed"
        /\ size = BitsNeededInDomain(args.numKeys, args.numHashes,
                                     args.maxFalsePositive[1], args.maxFalsePositive[2])
        /\ size >= numHashes
        /\ size > 0

\* the probe indices of key, lines 45-58: the values of the chain
\* BitHash(key, 0), BitHash(key, h), ... taken modulo the capacity
ProbeSeq(tab, key) ==
    [j \in 1 .. Max(numHashes, 0) |-> PyMod(HashAt(tab, key, j), size)]
ProbeSet(tab, key) == {ProbeSeq(tab, key)[j] : j \in 1 .. Max(numHashes, 0)}

\* a step that is a call of insert: the inserted key is Head(log')
InsertStep == phase = "constructed" /\ log = <<>> /\ log' # <<>>

\* C15: an insert that returns raises the counter by the number of distinct
\* probe indices of its key whose bit was 0 before the call, an index hit by
\* several probes counting once; the increase is between 0 and the hash count.
InsertDelta ==
    [][(InsertStep /\ ~last'.raised) =>
          LET zero == {idx \in ProbeSet(hashTab', Head(log')) : bloomFilter[idx] = 0}
          IN  /\ bitsSet' - bitsSet = Cardinality(zero)
              /\ 0 <= bitsSet' - bitsSet
              /\ bitsSet' - bitsSet <= Max(numHashes, 0)]_vars

\* C15 witness: the first insert into a filter of 3 bits and 2 hashes had both
\* probes on the same index, and the counter is 1
InsertDeltaWitness ==
    /\ Valid
    /\ last.op = "insert"
    /\ size = 3
    /\ numHashes = 2
    /\ Len(last.probes) = 2
    /\ last.probes[1] = last.probes[2]
    /\ inserted = {last.key}
    /\ ~again
    /\ bitsSet = 1

\* C16: an insert that returns leaves the storage as it was except that the
\* bits at the probe indices of its key are 1; it accesses the probe indices
\* in the order of the chain, and a find accesses the same sequence, as far
\* as it goes.
InsertWritesProbeSet ==
    /\ [][(InsertStep /\ ~last'.raised) =>
            /\ last'.probes = ProbeSeq(hashTab', Head(log'))
            /\ bloomFilter' = [i \in DOMAIN bloomFilter |->
                                 IF i \in ProbeSet(hashTab', Head(log'))
                                 THEN 1 ELSE bloomFilter[i]]]_vars
    /\ []((phase = "constructed" /\ last.op = "find" /\ ~last.raised) =>
            /\ Len(last.probes) <= Max(numHashes, 0)
            /\ \A j \in 1 .. Len(last.probes) :
                  last.probes[j] = ProbeSeq(hashTab, last.key)[j])

\* C16 witness: after an insert with probes 1 and 0 into a filter of 3 bits,
\* bits 0 and 1 are set and bit 2 is not
InsertWritesProbeSetWitness ==
    /\ Valid
    /\ last.op = "insert"
    /\ size = 3
    /\ last.probes = <<1, 0>>
    /\ HashAt(hashTab, last.key, 1) = 1
    /\ HashAt(hashTab, last.key, 2) = 0
    /\ bloomFilter = (0 :> 1) @@ (1 :> 1) @@ (2 :> 0)

\* C17: an insert that returns has made exactly hashCount probes, a find that
\* returns at most hashCount, and fewer only when the last bit it read was 0
\* and it answered False; on a validly constructed filter both return.
BoundedWork ==
    /\ (Valid /\ last.op \in {"insert", "find"}) => ~last.raised
    /\ (phase = "constructed" /\ last.op = "insert" /\ ~last.raised) =>
          Len(last.probes) = Max(numHashes, 0)
    /\ (phase = "constructed" /\ last.op = "find" /\ ~last.raised) =>
          /\ Len(last.probes) <= Max(numHashes, 0)
          /\ Len(last.probes) < numHashes =>
                /\ Len(last.probes) >= 1
                /\ last.ret = "False"
                /\ bloomFilter[last.probes[Len(last.probes)]] = 0

\* C17 witness: a find with 2 hashes that read a 1 and then a 0, on a filter
\* that holds a key
BoundedWorkWitness ==
    /\ Valid
    /\ last.op = "find"
    /\ numHashes = 2
    /\ inserted # {}
    /\ Len(last.probes) = 2
    /\ bloomFilter[last.probes[1]] = 1
    /\ bloomFilter[last.probes[2]] = 0
    /\ last.ret = "False"

\* a step that is a call of find, falsePositiveRate or numBitsSet: the call is
\* recorded and no insert is
QueryStep ==
    /\ phase = "constructed"
    /\ last'.op \in {"find", "falsePositiveRate", "numBitsSet"}
    /\ log' = log

\* C18: find, falsePositiveRate and numBitsSet leave the storage and the
\* counter as they are; on a constructed filter the storage and the counter
\* change only in a call of insert.
QueriesReadOnly ==
    /\ [][QueryStep => UNCHANGED <<bloomFilter, bitsSet>>]_vars
    /\ [][(phase = "constructed" /\ <<bloomFilter, bitsSet>>' # <<bloomFilter, bitsSet>>) =>
             (InsertStep /\ last'.op = "insert")]_vars

\* C18 witness: a find that answered True on a filter of 3 bits with 1 bit set
QueriesReadOnlyWitness ==
    /\ Valid
    /\ last.op = "find"
    /\ last.ret = "True"
    /\ size = 3
    /\ bitsSet = 1
    /\ OnesCount(bloomFilter) = 1

\* C19: the filter has no lock.  As long as no two calls of insert have been
\* in progress at once, the counter is the number of 1-bits whenever no insert
\* is in progress; once two calls have interleaved, the counter can differ
\* from the number of 1-bits for good.
SerialAccounting ==
    (/\ phase = "constructed"
     /\ ~overlap
     /\ \A t \in Threads : threads[t].pc = "idle") =>
        bitsSet = OnesCount(bloomFilter)

\* C19 witness: two inserts have interleaved and both have returned; the
\* counter is not the number of 1-bits
SerialAccountingWitness ==
    /\ Valid
    /\ overlap
    /\ \A t \in Threads : threads[t].pc = "idle"
    /\ bitsSet # OnesCount(bloomFilter)

====
